---- MODULE Spec2Model ----
(***************************************************************************)
(* Model of the local singleton-server supervision of bundle-node.         *)
(*                                                                         *)
(* Two DatabaseService classes supervise the bundled HTTP server:          *)
(*   impl = "singleton" : the class with static globalServerRunning /      *)
(*                        lastHealthCheck, port probing and retrying       *)
(*                        launcher (executeCommand, attemptServerStart);   *)
(*   impl = "fetch"     : the fetch-based class with connectionPromise     *)
(*                        (makeRequest, _ensureConnection, waitForServer). *)
(* The server side is HttpServer.start (listen, exit(1) on a listen error).*)
(*                                                                         *)
(* JavaScript runs each callback and the promise continuations it wakes to *)
(* completion, so an action is one event together with every continuation  *)
(* it resumes.  The operators below are state transformers on the record   *)
(* Cur of the program state; an action applies one of them.                *)
(*                                                                         *)
(* Time is abstracted: a timer that is armed may fire at any moment (the   *)
(* 15 s startup timeout only after the 2 s verification timer), and the    *)
(* 5 s / 30 s freshness windows of the health checks end at any moment.    *)
(***************************************************************************)
EXTENDS Integers, FiniteSets, Sequences, TLC

VARIABLES impl, clientOf, active, budget, proc, sv, statics, task, deaths,
          pr, db, fmt, panel

\* The supervision state, the health probe taken alone, the item store,
\* the formatter's input and outputs, and the database panel.
supervision == <<impl, clientOf, active, budget, proc, sv, statics, task, deaths>>
vars == <<impl, clientOf, active, budget, proc, sv, statics, task, deaths, pr, db,
         fmt, panel>>

----------------------------------------------------------------------------
(* Program constants *)
FIXED_SERVER_PORT == 9229
DefaultPort == 9090
StartPort == 9090
maxRetries == 3
retriesInit == 2
HealthCheckTimeout == 3000
FetchProbeTimeout == 1000
MAX_RETRIES == 3

(* Bounds of the model *)
MaxProcs == 2
MaxDeaths == 1
PortRange == 1
WaitAttempts == 2
MaxId == 4
MaxCodeLen == 4
MaxRuns == 2
MaxTimers == 1
MaxInitFailures == 4

Sup == {"s1", "s2"}
Client == {"c1", "c2"}
Slot == {1, 2}
TaskId == Sup \X Slot
NoTask == <<"none", 0>>
\* Children are numbered in spawn order; a scenario spawns at most `budget`
\* of them: MaxProcs, or the maxRetries attempts of one startNewServer.
MaxChildren == IF MaxProcs > maxRetries THEN MaxProcs ELSE maxRetries
ProcId == 1..MaxChildren
NoProc == 0
Ports == {DefaultPort, StartPort} \cup (FIXED_SERVER_PORT..(FIXED_SERVER_PORT + PortRange))

Owner(k) == k[1]

ConnLevel == {"refused", "reset", "timeout"}

----------------------------------------------------------------------------
(* Records *)

NoProcRec ==
  [st |-> "none", port |-> 0, sup |-> "none", task |-> NoTask,
   promise |-> "none", tmo |-> FALSE, verify |-> FALSE, addr |-> FALSE,
   outStarted |-> FALSE, errAddr |-> FALSE, exitEv |-> "none", code |-> 0,
   killed |-> FALSE, sawAddr |-> FALSE, sawStarted |-> FALSE,
   pendingAtExit |-> FALSE, afterUnhealthy |-> FALSE, afterBindTest |-> FALSE]

GoneProcRec == [NoProcRec EXCEPT !.st = "gone"]

InitSv ==
  [constructed |-> FALSE, serverProcess |-> NoProc, serverPort |-> 0,
   isServerRunning |-> FALSE, serverStatus |-> "unknown", fresh |-> FALSE,
   conn |-> NoTask, disposed |-> FALSE, disposeKilled |-> FALSE]

InitTask ==
  [pc |-> "idle", kind |-> "none", attempt |-> 0,
   probePort |-> 0, scanPort |-> 0, retried |-> FALSE, retries |-> 0,
   waitI |-> 0, sends |-> 0, ensures |-> 0, reensures |-> 0,
   firstFail |-> "none", lastFail |-> "none", markedDown |-> FALSE,
   ranDirect |-> FALSE, sawUnhealthy |-> FALSE, bindTested |-> FALSE,
   failed |-> 0, delay |-> 0, skip |-> "none", result |-> "none"]

\* The health probe taken alone: the server and the port it pings, the
\* caller's cached flag, and the probe in flight.
InitProbeRec ==
  [running |-> FALSE, foreign |-> FALSE, cached |-> FALSE, fresh |-> FALSE,
   serverStatus |-> "unknown", pc |-> "idle", armed |-> 0, sent |-> FALSE,
   healthy |-> FALSE, threw |-> FALSE, elapsed |-> 0, upAtReturn |-> FALSE,
   wire |-> "none"]

\* The item store behind the HTTP handlers: the rows of table `items` (or the
\* GlobalStorage array of the bundled build), the next AUTOINCREMENT id, and
\* the last request with what DatabaseManager logged and the handler answered.
NoName == <<>>

InitDb ==
  [backend |-> "sqlite", table |-> FALSE, items |-> <<>>, nextId |-> 1,
   err |-> FALSE, changes |-> 0,
   op |-> "none", argId |-> 0, argName |-> NoName, log |-> "none",
   status |-> 0, message |-> "none", rows |-> <<>>,
   existed |-> FALSE, unchanged |-> TRUE, askedBefore |-> FALSE,
   assigned |-> {}, reused |-> FALSE,
   prevAdd |-> FALSE, prevName |-> NoName, prevClear |-> FALSE, scen |-> 0]

\* The formatter: the text given and what one and two passes return.
InitFmt == [code |-> <<>>, once |-> <<>>, twice |-> <<>>, passes |-> 0]

RunId == 1..MaxRuns

InitPanel ==
  [disposed |-> FALSE, isInitializing |-> FALSE, initRetries |-> 0,
   timers |-> 0,
   run |-> [r \in RunId |-> [pc |-> "idle", end |-> "none"]]]

Cur == [proc |-> proc, sv |-> sv, statics |-> statics, task |-> task,
        deaths |-> deaths, overflow |-> FALSE]

\* A child that has exited, whose events have all been delivered and whose
\* timers have all run: nothing refers to it any more.
Final(S, p) ==
  /\ S.proc[p].st = "exited"
  /\ ~S.proc[p].outStarted /\ ~S.proc[p].errAddr /\ S.proc[p].exitEv # "pending"
  /\ ~S.proc[p].tmo /\ ~S.proc[p].verify /\ ~S.proc[p].addr
  /\ S.proc[p].promise # "pending"
  /\ \A s \in Sup : S.sv[s].serverProcess # p

\* The next state is T; the record of a child that was already Final is
\* forgotten (its identifier is never used again).
Apply(T) ==
  /\ ~T.overflow
  /\ proc' = [p \in ProcId |->
               IF Final(Cur, p) /\ T.proc[p] = proc[p] THEN GoneProcRec
               ELSE T.proc[p]]
  /\ sv' = T.sv
  /\ statics' = T.statics
  /\ task' = T.task
  /\ deaths' = T.deaths
  /\ UNCHANGED <<impl, clientOf, active, budget, pr, db, fmt, panel>>

----------------------------------------------------------------------------
(* The operating system and the server binary *)

Listening(S, port) ==
  \E p \in ProcId : S.proc[p].st = "listening" /\ S.proc[p].port = port

\* GET /ping against `port`: 200 "pong" iff a server listens there.
Healthy(S, port) == Listening(S, port)

\* checkPortAvailability: a throwaway listener binds iff nobody listens.
checkPortAvailability(S, port) == ~Listening(S, port)

Unused(S, p) == S.proc[p].st = "none" /\ p <= budget

FreeProc(S) ==
  IF \E p \in ProcId : Unused(S, p)
  THEN CHOOSE p \in ProcId :
         Unused(S, p) /\ \A q \in ProcId : q < p => ~Unused(S, q)
  ELSE NoProc

\* server.listen(port): the bind is exclusive.
CanBindShared(S, p) == TRUE

CanBind(S, p) == ~Listening(S, S.proc[p].port)

\* server.on("error"): console.error("Server error:", err); process.exit(1)
listenErrorNoExit(S, p) ==
  [S EXCEPT !.proc[p].st = "idle",
            !.proc[p].errAddr = (impl = "singleton")]

listenError(S, p) ==
  [S EXCEPT !.proc[p].st = "exited",
            !.proc[p].code = 1,
            !.proc[p].errAddr = (impl = "singleton"),
            !.proc[p].exitEv = IF impl = "singleton" THEN "pending" ELSE "none"]

\* HttpServer.start(port)
HttpServerStart(S, p) ==
  IF CanBind(S, p)
  THEN [S EXCEPT !.proc[p].st = "listening",
                 !.proc[p].outStarted = (impl = "singleton")]
  ELSE listenError(S, p)

\* A signal ends a running child: exit event with code null (-1).
Signalled(S, p) ==
  IF S.proc[p].st \in {"booting", "listening", "idle"}
  THEN [S EXCEPT !.proc[p].st = "exited",
                 !.proc[p].code = -1,
                 !.proc[p].exitEv = IF impl = "singleton" THEN "pending" ELSE "none"]
  ELSE S

----------------------------------------------------------------------------
(* impl = "singleton": the DatabaseService with static flags *)

\* killServerProcess(): SIGTERM to this.serverProcess, then drop the handle.
killServerProcess(S, s) ==
  LET p == S.sv[s].serverProcess IN
  IF p # NoProc /\ ~S.proc[p].killed
  THEN LET alive == S.proc[p].st \in {"booting", "listening", "idle"}
           S1 == [Signalled(S, p) EXCEPT !.proc[p].killed = alive]
       IN [S1 EXCEPT !.sv[s].serverProcess = NoProc]
  ELSE S

\* executeViaServer(args): the POST is written to this.serverPort.
executeViaServer(S, k) ==
  [S EXCEPT !.task[k].pc = "sent",
            !.task[k].sends = @ + 1,
            !.task[k].probePort = S.sv[Owner(k)].serverPort]

\* executeDirectly(args): spawn the binary for this one command.
throwInsteadOfDirect(S, k) ==
  [S EXCEPT !.task[k].pc = "done", !.task[k].result = "net_error"]

executeDirectly(S, k) ==
  [S EXCEPT !.task[k].pc = "direct", !.task[k].ranDirect = TRUE]

finish(S, k, r) ==
  [S EXCEPT !.task[k].pc = "done", !.task[k].result = r]

\* What runs when `await this.ensureServerRunning()` settles: the
\* constructor's .catch, or executeCommand before / inside its retry.
ensureReturns(S, k, ok) ==
  LET s == Owner(k)
      t == S.task[k]
      S1 == [S EXCEPT !.task[k].ensures = @ + (IF ok THEN 1 ELSE 0)]
  IN IF t.kind = "ctor"
     THEN finish(S1, k, IF ok THEN "ready" ELSE "ensure_error")
     ELSE IF ~t.retried
          THEN IF ~ok
               THEN finish(S1, k, "ensure_error")
               ELSE IF S.sv[s].isServerRunning
                    THEN executeViaServer(S1, k)
                    ELSE executeDirectly(S1, k)
          ELSE IF ok THEN executeViaServer(S1, k) ELSE executeDirectly(S1, k)

\* attemptServerStart(): spawn, arm the startup timeout and the 2 s check.
attemptServerStart(S, k) ==
  LET s == Owner(k)
      p == FreeProc(S)
  IN IF p = NoProc
     THEN [S EXCEPT !.overflow = TRUE]
     ELSE [S EXCEPT
             !.proc[p] = [NoProcRec EXCEPT
                            !.st = "booting",
                            !.port = S.sv[s].serverPort,
                            !.sup = s,
                            !.task = k,
                            !.promise = "pending",
                            !.tmo = TRUE,
                            !.verify = TRUE,
                            !.afterUnhealthy = S.task[k].sawUnhealthy,
                            !.afterBindTest = S.task[k].bindTested],
             !.sv[s].serverProcess = p,
             !.task[k].pc = "launching"]

\* startNewServer(): the continuation after a resolved attempt.
attemptResolved(S, k) ==
  LET s == Owner(k) IN
  ensureReturns([S EXCEPT !.sv[s].isServerRunning = TRUE,
                          !.statics[clientOf[s]].globalServerRunning = TRUE],
                k, TRUE)

Min(a, b) == IF a < b THEN a ELSE b

\* startNewServer(): Math.min(1000 * Math.pow(2, attempt - 1), 5000)
backoffDelay(attempt) == Min(1000 * 2^(attempt - 1), 5000)

\* startNewServer(): the catch of a rejected attempt.
retryWithoutBound(S, k) ==
  [S EXCEPT !.task[k].pc = "backoff",
            !.task[k].failed = @ + 1,
            !.task[k].delay = backoffDelay(S.task[k].attempt)]

attemptRejected(S, k) ==
  LET S1 == [S EXCEPT !.task[k].failed = @ + 1] IN
  IF S.task[k].attempt < maxRetries
  THEN [S1 EXCEPT !.task[k].pc = "backoff",
                  !.task[k].delay = backoffDelay(S.task[k].attempt)]
  ELSE ensureReturns(S1, k, FALSE)

\* resolve() / reject() of the promise of the attempt that spawned p.  The
\* 2 s verification timer can only resolve, which has no effect once the
\* promise is settled, so settling disarms it.
resolve(S, p) ==
  IF S.proc[p].promise = "pending"
  THEN attemptResolved([S EXCEPT !.proc[p].promise = "resolved",
                                 !.proc[p].verify = FALSE], S.proc[p].task)
  ELSE S

reject(S, p) ==
  IF S.proc[p].promise = "pending"
  THEN attemptRejected([S EXCEPT !.proc[p].promise = "rejected",
                                 !.proc[p].verify = FALSE], S.proc[p].task)
  ELSE S

\* startNewServer(): entry, first attempt.
startNewServer(S, k) ==
  IF S.statics[clientOf[Owner(k)]].globalServerRunning
  THEN ensureReturns(S, k, TRUE)
  ELSE attemptServerStart([S EXCEPT !.task[k].attempt = 1,
                                   !.task[k].failed = 0,
                                   !.task[k].delay = 0], k)

\* ensureServerRunning(): after the health check answered `healthy`.
launchAlthoughHealthy(S, k, healthy) ==
  [S EXCEPT !.task[k].pc = "portcheck"]

afterHealth(S, k, healthy) ==
  LET s == Owner(k)
      c == clientOf[s]
  IN IF healthy
     THEN ensureReturns([S EXCEPT !.sv[s].isServerRunning = TRUE,
                                  !.statics[c].globalServerRunning = TRUE],
                        k, TRUE)
     ELSE LET S1 == IF S.sv[s].isServerRunning \/ S.statics[c].globalServerRunning
                    THEN killServerProcess(
                           [S EXCEPT !.sv[s].isServerRunning = FALSE,
                                     !.statics[c].globalServerRunning = FALSE], s)
                    ELSE S
          IN [S1 EXCEPT !.task[k].pc = "portcheck",
                        !.task[k].sawUnhealthy = TRUE]

\* ensureServerRunning(): entry.  performHealthCheck() answers from
\* this.isServerRunning within 5 s of the last check, else it pings.
ensureServerRunning(S, k) ==
  LET s == Owner(k)
      c == clientOf[s]
      S0 == [S EXCEPT !.task[k].sawUnhealthy = FALSE,
                      !.task[k].bindTested = FALSE,
                      !.task[k].skip = IF ~S.statics[c].hcFresh THEN "probe"
                                       ELSE IF S.sv[s].isServerRunning
                                            THEN "ready" ELSE "notready"]
  IN IF S.statics[c].hcFresh
     THEN afterHealth(S0, k, S.sv[s].isServerRunning)
     ELSE [S0 EXCEPT !.statics[c].hcFresh = TRUE,
                     !.task[k].pc = "probing",
                     !.task[k].probePort = S.sv[s].serverPort]

\* executeCommand(): the retry after ECONNREFUSED / ECONNRESET.
retryOnceNoEnsure(S, k) ==
  executeViaServer([S EXCEPT !.task[k].retried = TRUE], k)

retryOnce(S, k) ==
  LET s == Owner(k) IN
  ensureServerRunning(
    [S EXCEPT !.sv[s].isServerRunning = FALSE,
              !.statics[clientOf[s]].globalServerRunning = FALSE,
              !.task[k].markedDown = TRUE,
              !.task[k].retried = TRUE,
              !.task[k].reensures = @ + 1], k)

\* executeCommand(): what the outcome o of executeViaServer leads to.
afterResponse(S, k, o) ==
  LET t == S.task[k]
      S1 == IF o = "ok" THEN S
            ELSE IF ~t.retried
                 THEN [S EXCEPT !.task[k].firstFail = o]
                 ELSE [S EXCEPT !.task[k].lastFail = o]
  IN IF o = "ok" THEN finish(S1, k, "ok")
     ELSE IF o = "timeout" THEN [S1 EXCEPT !.task[k].pc = "hung"]
     ELSE IF ~t.retried /\ o \in {"refused", "reset"} THEN retryOnce(S1, k)
     ELSE executeDirectly(S1, k)

\* performHealthCheck() as the timer callbacks of attemptServerStart use it:
\* the ping and the continuation that reads its answer are one step.
timerHealth(S, s) ==
  IF S.statics[clientOf[s]].hcFresh
  THEN S.sv[s].isServerRunning
  ELSE Healthy(S, S.sv[s].serverPort)

timerTouch(S, s) == [S EXCEPT !.statics[clientOf[s]].hcFresh = TRUE]

\* ensureServerRunning(): after checkPortAvailability(FIXED_SERVER_PORT).
afterPortCheck(S, k, free) ==
  IF free
  THEN startNewServer([S EXCEPT !.task[k].bindTested = TRUE], k)
  ELSE [S EXCEPT !.task[k].pc = "scan",
                 !.task[k].scanPort = FIXED_SERVER_PORT]

\* findAvailablePort(): one iteration, then the rest of ensureServerRunning.
afterScan(S, k, free) ==
  LET s == Owner(k)
      port == S.task[k].scanPort
  IN IF free
     THEN startNewServer([S EXCEPT !.sv[s].serverPort = port,
                                   !.task[k].bindTested = TRUE], k)
     ELSE IF port < FIXED_SERVER_PORT + PortRange
          THEN [S EXCEPT !.task[k].scanPort = port + 1]
          ELSE ensureReturns(S, k, FALSE)

\* attemptServerStart(): the handlers it installs on the child p.
onStdout(S, p) ==
  resolve([S EXCEPT !.proc[p].outStarted = FALSE,
                    !.proc[p].sawStarted = TRUE,
                    !.proc[p].tmo = FALSE], p)

onStderr(S, p) ==
  [S EXCEPT !.proc[p].errAddr = FALSE,
            !.proc[p].sawAddr = TRUE,
            !.proc[p].tmo = FALSE,
            !.proc[p].addr = TRUE]

onExit(S, p) ==
  LET s == S.proc[p].sup
      S1 == [S EXCEPT !.proc[p].exitEv = "done",
                      !.proc[p].pendingAtExit = (S.proc[p].promise = "pending"),
                      !.proc[p].tmo = FALSE,
                      !.sv[s].isServerRunning = FALSE,
                      !.sv[s].serverProcess = NoProc]
  IN IF S.proc[p].code # 0 /\ S.proc[p].code # -1 THEN reject(S1, p) ELSE S1

onStartupTimeout(S, p) ==
  reject(killServerProcess([S EXCEPT !.proc[p].tmo = FALSE], S.proc[p].sup), p)

onAddrTimer(S, p) ==
  LET s == S.proc[p].sup
      h == timerHealth(S, s)
      S1 == killServerProcess(timerTouch([S EXCEPT !.proc[p].addr = FALSE], s), s)
  IN IF h THEN resolve(S1, p) ELSE reject(S1, p)

onVerifyTimer(S, p) ==
  LET s == S.proc[p].sup
      q == S.sv[s].serverProcess
      S1 == [S EXCEPT !.proc[p].verify = FALSE]
  IN IF q # NoProc /\ ~S.proc[q].killed
     THEN IF timerHealth(S, s)
          THEN resolve([timerTouch(S1, s) EXCEPT !.proc[p].tmo = FALSE], p)
          ELSE timerTouch(S1, s)
     ELSE S1

\* dispose(): stopServer() if this instance holds a child handle.
disposeKeepsServer(S, s) == [S EXCEPT !.sv[s].disposed = TRUE]

dispose(S, s) ==
  LET p == S.sv[s].serverProcess
      S1 == [S EXCEPT !.sv[s].disposed = TRUE]
  IN IF p # NoProc
     THEN LET S2 == killServerProcess(
                      [S1 EXCEPT !.sv[s].isServerRunning = FALSE,
                                 !.statics[clientOf[s]].globalServerRunning = FALSE], s)
          IN [S2 EXCEPT !.sv[s].disposeKilled = S2.proc[p].killed /\ ~S.proc[p].killed]
     ELSE S1

----------------------------------------------------------------------------
(* impl = "fetch": the DatabaseService with connectionPromise *)

\* dispose(): only logs; the server is left running.
disposeF(S, s) == [S EXCEPT !.sv[s].disposed = TRUE]

\* The fetch of makeRequest, after `await this.ensureServerRunning()`.
fetchOnly(t, port) ==
  [t EXCEPT !.pc = "sent", !.sends = @ + 1, !.probePort = port]

\* One pass of the try block of makeRequest once ensureServerRunning returned.
fetchSendRec(t, port) == fetchOnly([t EXCEPT !.ensures = @ + 1], port)

fetchSend(S, k) ==
  [S EXCEPT !.task[k] = fetchSendRec(@, S.sv[Owner(k)].serverPort)]

InConnection(t) == t.pc \in {"f_probe", "f_wait", "f_sleep"}

\* connectionPromise settles: the finally of ensureServerRunning clears it,
\* and the owner and every caller that was handed the promise go on.
connSettles(S, s, ok) ==
  [S EXCEPT
     !.sv[s].conn = NoTask,
     !.task = [k \in TaskId |->
                 IF Owner(k) = s /\ (InConnection(S.task[k]) \/ S.task[k].pc = "join")
                 THEN IF ok
                      THEN fetchSendRec(S.task[k], S.sv[s].serverPort)
                      ELSE [S.task[k] EXCEPT !.pc = "done",
                                             !.retries = @ - 1,
                                             !.result = "ensure_error"]
                 ELSE S.task[k]]]

\* startServer(): spawn on port 9090, then waitForServer's first ping.
startServer(S, k) ==
  LET s == Owner(k)
      p == FreeProc(S)
  IN IF p = NoProc
     THEN [S EXCEPT !.overflow = TRUE]
     ELSE [S EXCEPT
             !.proc[p] = [NoProcRec EXCEPT
                            !.st = "booting",
                            !.port = StartPort,
                            !.sup = s,
                            !.task = k,
                            !.afterUnhealthy = S.task[k].sawUnhealthy,
                            !.afterBindTest = S.task[k].bindTested],
             !.sv[s].serverStatus = "starting",
             !.sv[s].serverProcess = p,
             !.task[k].waitI = 0,
             !.task[k].pc = "f_wait"]

\* _ensureConnection(): after isServerRunning() answered.
ensureConnection(S, k, up) ==
  LET s == Owner(k) IN
  IF up
  THEN connSettles([S EXCEPT !.sv[s].serverStatus = "running",
                             !.sv[s].fresh = TRUE], s, TRUE)
  ELSE LET S1 == [S EXCEPT !.sv[s].serverStatus = "failed",
                           !.task[k].sawUnhealthy = TRUE]
       IN IF S1.sv[s].serverStatus # "starting"
          THEN startServer(S1, k)
          ELSE connSettles(S1, s, TRUE)

\* waitForServer(): after one isServerRunning() of the loop.
waitResult(S, k, up) ==
  LET s == Owner(k) IN
  IF up
  THEN connSettles([S EXCEPT !.sv[s].serverStatus = "running",
                             !.sv[s].fresh = TRUE], s, TRUE)
  ELSE [S EXCEPT !.sv[s].serverStatus = "failed",
                 !.task[k].pc = "f_sleep"]

\* waitForServer(): after the 500 ms sleep.
waitGivesUpQuietly(S, k) ==
  LET s == Owner(k) IN
  IF S.task[k].waitI + 1 < WaitAttempts
  THEN [S EXCEPT !.task[k].waitI = @ + 1, !.task[k].pc = "f_wait"]
  ELSE connSettles([S EXCEPT !.sv[s].serverStatus = "failed"], s, TRUE)

waitSleepDone(S, k) ==
  LET s == Owner(k) IN
  IF S.task[k].waitI + 1 < WaitAttempts
  THEN [S EXCEPT !.task[k].waitI = @ + 1, !.task[k].pc = "f_wait"]
  ELSE connSettles([S EXCEPT !.sv[s].serverStatus = "failed"], s, FALSE)

\* ensureServerRunning() of the fetch service.
ensureServerRunningF(S, k) ==
  LET s == Owner(k)
      S0 == [S EXCEPT !.task[k].sawUnhealthy = FALSE,
                      !.task[k].bindTested = FALSE,
                      !.task[k].skip =
                         IF S.sv[s].conn # NoTask THEN "join"
                         ELSE IF S.sv[s].serverStatus = "running" /\ S.sv[s].fresh
                              THEN "ready" ELSE "probe"]
  IN IF S.sv[s].conn # NoTask
     THEN [S0 EXCEPT !.task[k].pc = "join"]
     ELSE IF S.sv[s].serverStatus = "running" /\ S.sv[s].fresh
          THEN fetchSend(S0, k)
          ELSE [S0 EXCEPT !.sv[s].conn = k, !.task[k].pc = "f_probe"]

\* makeRequest(): the catch block, for outcome o of the fetch.
makeRequestCatchRetryAll(S, k, o) ==
  LET t == S.task[k]
      left == t.retries - 1
      S1 == IF t.sends = 1
            THEN [S EXCEPT !.task[k].firstFail = o, !.task[k].retries = left]
            ELSE [S EXCEPT !.task[k].lastFail = o, !.task[k].retries = left]
  IN IF left > 0
     THEN [S1 EXCEPT !.task[k].pc = "f_retry"]
     ELSE finish(S1, k, "net_error")

makeRequestCatch(S, k, o) ==
  LET s == Owner(k)
      t == S.task[k]
      left == t.retries - 1
      S1 == IF t.sends = 1
            THEN [S EXCEPT !.task[k].firstFail = o, !.task[k].retries = left]
            ELSE [S EXCEPT !.task[k].lastFail = o, !.task[k].retries = left]
  IN IF o \in {"refused", "reset"}
     THEN LET S2 == [S1 EXCEPT !.sv[s].serverStatus = "failed",
                               !.sv[s].fresh = FALSE,
                               !.task[k].markedDown = TRUE]
          IN IF left > 0
             THEN [S2 EXCEPT !.task[k].pc = "f_retry"]
             ELSE finish(S2, k, "net_error")
     ELSE IF o = "http_error"
          THEN finish(S1, k, "app_error")
          ELSE finish(S1, k, "timeout_error")

afterResponseF(S, k, o) ==
  IF o = "ok" THEN finish(S, k, "ok") ELSE makeRequestCatch(S, k, o)

----------------------------------------------------------------------------
(* Initial state *)

Init ==
  /\ impl \in {"singleton", "fetch"}
  /\ active \in {{<<"s1", 1>>, <<"s1", 2>>}, {<<"s1", 1>>, <<"s2", 1>>}}
  /\ deaths = 0
  /\ budget = MaxProcs
  /\ clientOf \in {[s \in Sup |-> "c1"],
                   [s \in Sup |-> IF s = "s1" THEN "c1" ELSE "c2"]}
  /\ (impl = "fetch" => clientOf["s2"] = "c2")
  /\ proc = [p \in ProcId |-> NoProcRec]
  /\ sv = [s \in Sup |->
             [InitSv EXCEPT !.constructed = (impl = "fetch"),
                            !.serverPort = IF impl = "fetch" THEN DefaultPort
                                           ELSE FIXED_SERVER_PORT]]
  /\ statics = [c \in Client |-> [globalServerRunning |-> FALSE, hcFresh |-> FALSE]]
  /\ task = [k \in TaskId |-> InitTask]
  /\ pr = InitProbeRec
  /\ db = InitDb
  /\ fmt = InitFmt
  /\ panel = InitPanel

----------------------------------------------------------------------------
(* Actions shared by both services: the child processes *)

\* The spawned binary reaches HttpServer.start.
ChildBoot(p) ==
  /\ proc[p].st = "booting"
  /\ Apply(HttpServerStart(Cur, p))

\* A child is ended from outside (crash, kill by the user or the system).
ServerDies(p) ==
  /\ proc[p].st \in {"booting", "listening"}
  /\ deaths < MaxDeaths
  /\ Apply([Signalled(Cur, p) EXCEPT !.deaths = @ + 1])

----------------------------------------------------------------------------
(* Actions of impl = "singleton" *)

\* new DatabaseService(binaryPath): the constructor calls ensureServerRunning.
Construct(s) ==
  /\ impl = "singleton"
  /\ ~sv[s].constructed
  /\ <<s, 1>> \in active
  /\ Apply(ensureServerRunning(
       [Cur EXCEPT !.sv[s].constructed = TRUE,
                   !.task[<<s, 1>>].kind = "ctor"], <<s, 1>>))

\* A public operation (listItems, addItem, ...) enters executeCommand.
CallStart(s) ==
  /\ impl = "singleton"
  /\ sv[s].constructed
  /\ task[<<s, 2>>].pc = "idle"
  /\ <<s, 2>> \in active
  /\ Apply(ensureServerRunning([Cur EXCEPT !.task[<<s, 2>>].kind = "call"], <<s, 2>>))

\* The GET /ping of performHealthCheck answers.
ProbeResult(k) ==
  /\ impl = "singleton"
  /\ task[k].pc = "probing"
  /\ Apply(afterHealth(Cur, k, Healthy(Cur, task[k].probePort)))

\* checkPortAvailability(FIXED_SERVER_PORT) answers.
PortCheckResult(k) ==
  /\ impl = "singleton"
  /\ task[k].pc = "portcheck"
  /\ Apply(afterPortCheck(Cur, k, checkPortAvailability(Cur, FIXED_SERVER_PORT)))

\* checkPortAvailability(port) of findAvailablePort answers.
ScanResult(k) ==
  /\ impl = "singleton"
  /\ task[k].pc = "scan"
  /\ Apply(afterScan(Cur, k, checkPortAvailability(Cur, task[k].scanPort)))

\* The backoff sleep of startNewServer ends: next attempt.
BackoffDone(k) ==
  /\ impl = "singleton"
  /\ task[k].pc = "backoff"
  /\ Apply(attemptServerStart([Cur EXCEPT !.task[k].attempt = @ + 1], k))

StdoutData(p) ==
  /\ proc[p].outStarted
  /\ Apply(onStdout(Cur, p))

StderrData(p) ==
  /\ proc[p].errAddr
  /\ Apply(onStderr(Cur, p))

ExitEvent(p) ==
  /\ proc[p].exitEv = "pending"
  /\ Apply(onExit(Cur, p))

StartupTimeout(p) ==
  /\ proc[p].tmo
  /\ ~proc[p].verify
  /\ Apply(onStartupTimeout(Cur, p))

AddrTimer(p) ==
  /\ proc[p].addr
  /\ Apply(onAddrTimer(Cur, p))

VerifyTimer(p) ==
  /\ proc[p].verify
  /\ Apply(onVerifyTimer(Cur, p))

Outcomes(S, port) ==
  IF Listening(S, port) THEN {"ok", "http_error", "reset", "timeout"}
  ELSE {"refused"}

\* The POST of executeViaServer ends with outcome o.
Response(k, o) ==
  /\ impl = "singleton"
  /\ task[k].pc = "sent"
  /\ o \in Outcomes(Cur, task[k].probePort)
  /\ Apply(afterResponse(Cur, k, o))

\* executeDirectly ends.
DirectResult(k, r) ==
  /\ task[k].pc = "direct"
  /\ Apply(finish(Cur, k, r))

\* 5 s pass since the last performHealthCheck of client process c.
Expire(c) ==
  /\ statics[c].hcFresh
  /\ Apply([Cur EXCEPT !.statics[c].hcFresh = FALSE])

\* The owner disposes of the service once its operations have returned (or
\* can no longer return).
Quiet(s) ==
  \A k \in active : Owner(k) = s => task[k].pc \in {"done", "hung"}

Dispose(s) ==
  /\ impl = "singleton"
  /\ sv[s].constructed /\ ~sv[s].disposed
  /\ \E k \in active : Owner(k) = s
  /\ Quiet(s)
  /\ Apply(dispose(Cur, s))

----------------------------------------------------------------------------
(* Actions of impl = "fetch" *)

DisposeF(s) ==
  /\ impl = "fetch"
  /\ ~sv[s].disposed
  /\ \E k \in active : Owner(k) = s
  /\ Quiet(s)
  /\ Apply(disposeF(Cur, s))

\* A public operation enters makeRequest.
CallStartF(k) ==
  /\ impl = "fetch"
  /\ task[k].pc = "idle"
  /\ k \in active
  /\ Apply(ensureServerRunningF(
       [Cur EXCEPT !.task[k].kind = "call", !.task[k].retries = retriesInit], k))

\* isServerRunning() of _ensureConnection answers.
ProbeResultF(k) ==
  /\ task[k].pc = "f_probe"
  /\ Apply(ensureConnection(Cur, k, Healthy(Cur, sv[Owner(k)].serverPort)))

\* isServerRunning() of waitForServer answers.
WaitResultF(k) ==
  /\ task[k].pc = "f_wait"
  /\ Apply(waitResult(Cur, k, Healthy(Cur, sv[Owner(k)].serverPort)))

WaitSleepDoneF(k) ==
  /\ task[k].pc = "f_sleep"
  /\ Apply(waitSleepDone(Cur, k))

\* The fetch of makeRequest ends with outcome o.
ResponseF(k, o) ==
  /\ impl = "fetch"
  /\ task[k].pc = "sent"
  /\ o \in Outcomes(Cur, task[k].probePort)
  /\ Apply(afterResponseF(Cur, k, o))

\* The 1 s sleep before the retry ends: next pass of the while loop.
RetrySleepDoneF(k) ==
  /\ task[k].pc = "f_retry"
  /\ Apply(ensureServerRunningF(
       [Cur EXCEPT !.task[k].retried = TRUE, !.task[k].reensures = @ + 1], k))

\* 30 s pass since lastHealthCheck of supervisor s.
ExpireF(s) ==
  /\ sv[s].fresh
  /\ Apply([Cur EXCEPT !.sv[s].fresh = FALSE])

----------------------------------------------------------------------------
Next ==
  \/ \E p \in ProcId : ChildBoot(p)
  \/ \E p \in ProcId : ServerDies(p)
  \/ \E s \in Sup : Construct(s)
  \/ \E s \in Sup : CallStart(s)
  \/ \E k \in TaskId : ProbeResult(k)
  \/ \E k \in TaskId : PortCheckResult(k)
  \/ \E k \in TaskId : ScanResult(k)
  \/ \E k \in TaskId : BackoffDone(k)
  \/ \E p \in ProcId : StdoutData(p)
  \/ \E p \in ProcId : StderrData(p)
  \/ \E p \in ProcId : ExitEvent(p)
  \/ \E p \in ProcId : StartupTimeout(p)
  \/ \E p \in ProcId : AddrTimer(p)
  \/ \E p \in ProcId : VerifyTimer(p)
  \/ \E k \in TaskId, o \in {"ok", "http_error", "reset", "timeout", "refused"} : Response(k, o)
  \/ \E k \in TaskId, r \in {"direct_ok", "direct_error"} : DirectResult(k, r)
  \/ \E c \in Client : Expire(c)
  \/ \E k \in TaskId : CallStartF(k)
  \/ \E k \in TaskId : ProbeResultF(k)
  \/ \E k \in TaskId : WaitResultF(k)
  \/ \E k \in TaskId : WaitSleepDoneF(k)
  \/ \E k \in TaskId, o \in {"ok", "http_error", "reset", "timeout", "refused"} : ResponseF(k, o)
  \/ \E k \in TaskId : RetrySleepDoneF(k)
  \/ \E s \in Sup : ExpireF(s)
  \/ \E s \in Sup : Dispose(s)
  \/ \E s \in Sup : DisposeF(s)

Spec == Init /\ [][Next]_vars

----------------------------------------------------------------------------
(* One singleton DatabaseService alone on the machine: its constructor's   *)
(* ensureServerRunning with all the attempts of startNewServer.            *)

InitLaunch ==
  /\ impl = "singleton"
  /\ active = {<<"s1", 1>>}
  /\ deaths = 0
  /\ budget = maxRetries
  /\ clientOf = [s \in Sup |-> "c1"]
  /\ proc = [p \in ProcId |-> NoProcRec]
  /\ sv = [s \in Sup |-> [InitSv EXCEPT !.serverPort = FIXED_SERVER_PORT]]
  /\ statics = [c \in Client |-> [globalServerRunning |-> FALSE, hcFresh |-> FALSE]]
  /\ task = [k \in TaskId |-> InitTask]
  /\ pr = InitProbeRec
  /\ db = InitDb
  /\ fmt = InitFmt
  /\ panel = InitPanel

NextLaunch ==
  \/ \E p \in ProcId : ChildBoot(p)
  \/ \E p \in ProcId : ServerDies(p)
  \/ \E s \in Sup : Construct(s)
  \/ \E k \in TaskId : ProbeResult(k)
  \/ \E k \in TaskId : PortCheckResult(k)
  \/ \E k \in TaskId : BackoffDone(k)
  \/ \E p \in ProcId : StdoutData(p)
  \/ \E p \in ProcId : ExitEvent(p)
  \/ \E p \in ProcId : StartupTimeout(p)
  \/ \E p \in ProcId : VerifyTimer(p)
  \/ \E c \in Client : Expire(c)
  \/ \E s \in Sup : Dispose(s)

SpecLaunch == InitLaunch /\ [][NextLaunch]_vars

----------------------------------------------------------------------------
(* The health probe taken alone: performHealthCheck of the singleton       *)
(* service and isServerRunning of the fetch service, against every answer  *)
(* GET /ping can get.                                                      *)

StatusCodes == {200, 404, 500}
Wire == [kind : {"refused", "reset", "silent"}, code : {0}]
          \cup [kind : {"status"}, code : StatusCodes]

\* What GET /ping can meet: the server answers 200 "pong" or is too busy to
\* answer; with the server gone the port is closed, or another program
\* holds it and answers with a non-success status, a reset, or nothing.
WireOf(P) ==
  IF P.running
  THEN {w \in Wire : w.kind = "silent" \/ (w.kind = "status" /\ w.code = 200)}
  ELSE IF P.foreign
       THEN {w \in Wire : w.kind \in {"reset", "silent"}
                            \/ (w.kind = "status" /\ w.code # 200)}
       ELSE {w \in Wire : w.kind = "refused"}

\* The probe returns `healthy` after `ms`; ensureServerRunning stores it.
probeReturns(P, healthy, ms) ==
  [P EXCEPT !.pc = "returned", !.healthy = healthy, !.elapsed = ms,
            !.armed = 0, !.upAtReturn = P.running,
            !.cached = IF impl = "singleton" THEN healthy ELSE @]

\* performHealthCheck(): entry.
performHealthCheck(P) ==
  IF P.fresh
  THEN probeReturns([P EXCEPT !.sent = FALSE, !.wire = "none"], P.cached, 0)
  ELSE [P EXCEPT !.fresh = TRUE, !.pc = "sent", !.sent = TRUE,
                 !.armed = HealthCheckTimeout]

\* performHealthCheck(): the response, 'error' or 'timeout' event.
anyStatusHealthy(P, w) ==
  probeReturns([P EXCEPT !.wire = w.kind], w.kind = "status",
               IF w.kind = "silent" THEN P.armed ELSE 0)

healthCheckSettles(P, w) ==
  probeReturns([P EXCEPT !.wire = w.kind],
               w.kind = "status" /\ w.code = 200,
               IF w.kind = "silent" THEN P.armed ELSE 0)

\* isServerRunning(): the fetch of /ping is sent with AbortSignal.timeout.
isServerRunningF(P) ==
  [P EXCEPT !.pc = "sent", !.sent = TRUE, !.armed = FetchProbeTimeout]

\* isServerRunning(): response.ok, or the catch block.
isServerRunningSettles(P, w) ==
  IF w.kind = "status"
  THEN probeReturns([P EXCEPT !.wire = w.kind],
                    w.code >= 200 /\ w.code <= 299, 0)
  ELSE probeReturns([P EXCEPT !.wire = w.kind, !.serverStatus = "failed"],
                    FALSE, IF w.kind = "silent" THEN P.armed ELSE 0)

InitProbe ==
  /\ impl \in {"singleton", "fetch"}
  /\ active = {}
  /\ deaths = 0
  /\ budget = 0
  /\ clientOf = [s \in Sup |-> "c1"]
  /\ proc = [p \in ProcId |-> NoProcRec]
  /\ sv = [s \in Sup |-> InitSv]
  /\ statics = [c \in Client |-> [globalServerRunning |-> FALSE, hcFresh |-> FALSE]]
  /\ task = [k \in TaskId |-> InitTask]
  /\ pr \in {[InitProbeRec EXCEPT !.running = r] : r \in BOOLEAN}
  /\ db = InitDb
  /\ fmt = InitFmt
  /\ panel = InitPanel

ProbeStep(P) == pr' = P /\ UNCHANGED <<supervision, db, fmt, panel>>

\* A caller probes.
ProbeCall ==
  /\ pr.pc # "sent"
  /\ ProbeStep(IF impl = "singleton" THEN performHealthCheck(pr)
               ELSE isServerRunningF(pr))

\* The request of the probe settles with w.
ProbeSettles(w) ==
  /\ pr.pc = "sent"
  /\ w \in WireOf(pr)
  /\ ProbeStep(IF impl = "singleton" THEN healthCheckSettles(pr, w)
               ELSE isServerRunningSettles(pr, w))

\* 5 s pass since lastHealthCheck.
ProbeExpire ==
  /\ pr.fresh
  /\ ProbeStep([pr EXCEPT !.fresh = FALSE])

\* The server process stops, or starts on its port.
ServerStops ==
  /\ pr.running
  /\ ProbeStep([pr EXCEPT !.running = FALSE])

ServerStarts ==
  /\ ~pr.running /\ ~pr.foreign
  /\ ProbeStep([pr EXCEPT !.running = TRUE])

\* Another program takes or leaves the port while the server is gone.
ForeignFlips ==
  /\ ~pr.running
  /\ ProbeStep([pr EXCEPT !.foreign = ~@])

NextProbe ==
  \/ ProbeCall
  \/ \E w \in Wire : ProbeSettles(w)
  \/ ProbeExpire
  \/ ServerStops
  \/ ServerStarts
  \/ ForeignFlips

SpecProbe == InitProbe /\ [][NextProbe]_vars

----------------------------------------------------------------------------
(* The item store: HttpServer's /database handlers over DatabaseManager,   *)
(* on a real SQLite table (backend "sqlite") or on the in-memory fallback  *)
(* that loadNativeSqlite3 installs in the bundled build (backend "memory").*)
(* One client sends one request at a time; a request is one step.          *)

Whitespace == {" "}
Task1 == <<"T", "a", "s", "k", " ", "1">>
TestItem(n) == <<"T", "e", "s", "t", " ", "I", "t", "e", "m", " ", n>>
initialItems == <<TestItem("1"), TestItem("2"), TestItem("3")>>

\* Names and ids a request can carry; id 0 stands for a missing id.
NameInputs == {NoName, <<" ">>, Task1, <<" ">> \o Task1, <<"N">>}
IdInputs == 0..(MaxId + 1)

RECURSIVE trimStart(_)
trimStart(n) ==
  IF n # <<>> /\ Head(n) \in Whitespace THEN trimStart(Tail(n)) ELSE n

RECURSIVE trimEnd(_)
trimEnd(n) ==
  IF n # <<>> /\ n[Len(n)] \in Whitespace
  THEN trimEnd(SubSeq(n, 1, Len(n) - 1)) ELSE n

\* String.prototype.trim
trim(n) == trimEnd(trimStart(n))

HasId(D, id) == \E i \in 1..Len(D.items) : D.items[i].id = id

\* db.run / db.all of the driver: what the statement does to the store and
\* the err / this.changes its callback receives.
GlobalStorageAddItem(D, name) ==
  [D EXCEPT !.items = Append(@, [id |-> D.nextId, name |-> name]),
            !.nextId = @ + 1, !.err = FALSE, !.changes = 1,
            !.assigned = @ \cup {D.nextId},
            !.reused = @ \/ D.nextId \in D.assigned]

dropKeepsRows(D) ==
  [D EXCEPT !.table = FALSE, !.nextId = 1, !.err = FALSE, !.changes = 0,
            !.assigned = {}]

\* DROP TABLE IF EXISTS items: the full reset of the storage layer.
runDrop(D) ==
  IF D.backend = "memory"
  THEN [D EXCEPT !.items = <<>>, !.nextId = 1, !.err = FALSE, !.changes = 0,
                 !.assigned = {}]
  ELSE [D EXCEPT !.table = FALSE, !.items = <<>>, !.nextId = 1,
                 !.err = FALSE, !.changes = 0, !.assigned = {}]

runCreate(D) ==
  IF D.backend = "memory" THEN [D EXCEPT !.err = FALSE, !.changes = 0]
  ELSE IF D.table THEN [D EXCEPT !.err = TRUE, !.changes = 0]
  ELSE [D EXCEPT !.table = TRUE, !.err = FALSE, !.changes = 0]

runInsert(D, name) ==
  IF D.backend = "sqlite" /\ ~D.table
  THEN [D EXCEPT !.err = TRUE, !.changes = 0]
  ELSE GlobalStorageAddItem(D, name)

runUpdate(D, id, name) ==
  IF D.backend = "memory" THEN [D EXCEPT !.err = FALSE, !.changes = 1]
  ELSE IF ~D.table THEN [D EXCEPT !.err = TRUE, !.changes = 0]
  ELSE [D EXCEPT !.items = [i \in 1..Len(D.items) |->
                              IF D.items[i].id = id
                              THEN [D.items[i] EXCEPT !.name = name]
                              ELSE D.items[i]],
                 !.err = FALSE,
                 !.changes = IF HasId(D, id) THEN 1 ELSE 0]

runDelete(D, id) ==
  IF D.backend = "memory" THEN [D EXCEPT !.err = FALSE, !.changes = 1]
  ELSE IF ~D.table THEN [D EXCEPT !.err = TRUE, !.changes = 0]
  ELSE [D EXCEPT !.items = SelectSeq(@, LAMBDA r : r.id # id),
                 !.err = FALSE,
                 !.changes = IF HasId(D, id) THEN 1 ELSE 0]

clearResetsIds(D) ==
  IF D.backend = "sqlite" /\ ~D.table
  THEN [D EXCEPT !.err = TRUE, !.changes = 0]
  ELSE [D EXCEPT !.items = <<>>, !.nextId = 1, !.err = FALSE,
                 !.changes = Len(D.items)]

runDeleteAll(D) ==
  IF D.backend = "sqlite" /\ ~D.table
  THEN [D EXCEPT !.err = TRUE, !.changes = 0]
  ELSE [D EXCEPT !.items = <<>>, !.err = FALSE, !.changes = Len(D.items)]

\* DatabaseManager: the statement and what its callback logs.
Logged(D) ==
  [D EXCEPT !.log = IF D.err THEN "error"
                    ELSE IF D.changes > 0 THEN "changed" ELSE "none"]

RECURSIVE insertInitialItems(_, _)
insertInitialItems(D, names) ==
  IF names = <<>> THEN D
  ELSE insertInitialItems(runInsert(D, Head(names)), Tail(names))

initDatabase(D) ==
  LET D1 == runDrop(D)
      D2 == runCreate(D1)
  IN IF D2.err THEN Logged(D2)
     ELSE Logged(insertInitialItems(D2, initialItems))

addItem(D, name) == Logged(runInsert(D, name))
removeItem(D, id) == Logged(runDelete(D, id))
updateItem(D, id, name) == Logged(runUpdate(D, id, name))
clearItems(D) == Logged(runDeleteAll(D))

\* A request arrives: what is remembered about it and about the store it
\* meets.
Request(D, op, id, name) ==
  [D EXCEPT !.op = op, !.argId = id, !.argName = name, !.log = "none",
            !.reused = FALSE,
            !.rows = <<>>, !.existed = HasId(D, id),
            !.askedBefore = (op = "delete" /\ D.op = "delete"
                               /\ D.status = 200 /\ D.argId = id),
            !.prevAdd = FALSE, !.prevName = NoName, !.prevClear = FALSE,
            !.scen = 0]

\* res.writeHead(status); res.end(...)
Respond(D, before, status, message) ==
  [D EXCEPT !.status = status, !.message = message,
            !.unchanged = (D.items = before.items)]

\* POST /database/init
handleDatabaseInit(D) ==
  LET R == Request(D, "init", 0, NoName)
      D1 == Respond(initDatabase(R), D, 200, "Database initialized")
  IN [D1 EXCEPT !.scen = 1]

\* POST /database/items {action: "list"}
handleListItems(D) ==
  LET R == Request(D, "list", 0, NoName)
      D1 == IF D.backend = "sqlite" /\ ~D.table
            THEN Respond(R, D, 500, "Failed to fetch items")
            ELSE Respond([R EXCEPT !.rows = D.items], D, 200, "items")
  IN [D1 EXCEPT !.prevAdd = D.prevAdd, !.prevName = D.prevName,
                !.prevClear = D.prevClear,
                !.scen = IF D.scen = 2 THEN 3 ELSE 0]

\* POST /database/items {action: "add", name}
handleAddItem(D, name) ==
  LET R == Request(D, "add", 0, name)
  IN IF trim(name) = <<>>
     THEN Respond(R, D, 400, "Item name is required")
     ELSE LET D1 == Respond(addItem(R, trim(name)), D, 200, "Item added")
          IN [D1 EXCEPT !.prevAdd = TRUE, !.prevName = name,
                        !.scen = IF D.scen = 1 /\ name = Task1 THEN 2 ELSE 0]

\* POST /database/items {action: "delete", id}
handleDeleteItem(D, id) ==
  LET R == Request(D, "delete", id, NoName)
  IN IF id = 0
     THEN Respond(R, D, 400, "Item ID is required")
     ELSE Respond(removeItem(R, id), D, 200, "Item deleted")

\* POST /database/items {action: "update", id, name}
handleUpdateItem(D, id, name) ==
  LET R == Request(D, "update", id, name)
  IN IF id = 0 \/ trim(name) = <<>>
     THEN Respond(R, D, 400, "Item ID and name are required")
     ELSE Respond(updateItem(R, id, trim(name)), D, 200, "Item updated")

\* POST /database/clear
handleDatabaseClear(D) ==
  LET D1 == Respond(clearItems(Request(D, "clear", 0, NoName)), D,
                    200, "Database cleared")
  IN [D1 EXCEPT !.prevClear = TRUE]

\* clearDatabase(binaryPath) of the extension: `home --clear` through the
\* CLI and, when that command fails, `home --init` in its place.  `cmd`
\* tells which of the two commands the machine lets succeed.
clearDatabase(D, cmd) ==
  LET R == Request(D, "clear", 0, NoName)
  IN IF cmd = "clear_ok"
     THEN [Respond(clearItems(R), D, 200, "Database cleared successfully")
             EXCEPT !.prevClear = TRUE]
     ELSE IF cmd = "init_ok"
     THEN [Respond(initDatabase(R), D, 200,
                   "Database cleared via reinitialization")
             EXCEPT !.prevClear = TRUE]
     ELSE Respond(R, D, 500, "Failed to clear database")

InitStore ==
  /\ impl = "singleton"
  /\ active = {}
  /\ deaths = 0
  /\ budget = 0
  /\ clientOf = [s \in Sup |-> "c1"]
  /\ proc = [p \in ProcId |-> NoProcRec]
  /\ sv = [s \in Sup |-> InitSv]
  /\ statics = [c \in Client |-> [globalServerRunning |-> FALSE, hcFresh |-> FALSE]]
  /\ task = [k \in TaskId |-> InitTask]
  /\ pr = InitProbeRec
  /\ db \in {InitDb, [InitDb EXCEPT !.backend = "memory", !.table = TRUE]}
  /\ fmt = InitFmt
  /\ panel = InitPanel

\* The requests a client sends, one at a time.
DbInit ==
  /\ db' = handleDatabaseInit(db)
  /\ UNCHANGED <<supervision, pr, fmt, panel>>

DbList ==
  /\ db' = handleListItems(db)
  /\ UNCHANGED <<supervision, pr, fmt, panel>>

DbAdd(name) ==
  /\ db.nextId <= MaxId
  /\ db' = handleAddItem(db, name)
  /\ UNCHANGED <<supervision, pr, fmt, panel>>

DbDelete(id) ==
  /\ db' = handleDeleteItem(db, id)
  /\ UNCHANGED <<supervision, pr, fmt, panel>>

DbUpdate(id, name) ==
  /\ db' = handleUpdateItem(db, id, name)
  /\ UNCHANGED <<supervision, pr, fmt, panel>>

DbClear ==
  /\ db' = handleDatabaseClear(db)
  /\ UNCHANGED <<supervision, pr, fmt, panel>>

DbClearDatabase(cmd) ==
  /\ db' = clearDatabase(db, cmd)
  /\ UNCHANGED <<supervision, pr, fmt, panel>>

NextStore ==
  \/ DbInit
  \/ DbList
  \/ \E name \in NameInputs : DbAdd(name)
  \/ \E id \in IdInputs : DbDelete(id)
  \/ \E id \in IdInputs, name \in NameInputs : DbUpdate(id, name)
  \/ DbClear
  \/ \E cmd \in {"clear_ok", "init_ok", "none_ok"} : DbClearDatabase(cmd)

SpecStore == InitStore /\ [][NextStore]_vars

----------------------------------------------------------------------------
(* The client facade: addItem / deleteItem / updateItem of the two         *)
(* services, which check their arguments and then run the command          *)
(* (executeCommand, makeRequest).  One service instance, one launch; the   *)
(* fetch service is constructed with the default port or with another one.*)

\* A name or id argument: a string as its characters; <<>> also stands for
\* a missing (undefined) argument.
IdArgs == {<<>>, <<" ">>, <<"7">>}
NameArgs == {<<>>, <<" ">>, <<"N">>, <<" ", "N">>}
FacadeOps == {"add", "delete", "update"}

\* new DatabaseService(binaryPath, port)
ConfiguredPorts == {DefaultPort, FIXED_SERVER_PORT}

\* The check at the head of the facade method.
Rejects(op, id, name) ==
  LET noName == trim(name) = <<>>
      noId == IF impl = "singleton" THEN trim(id) = <<>> ELSE id = <<>>
  IN CASE op = "add" -> noName
       [] op = "delete" -> noId
       [] op = "update" -> noId \/ noName

\* executeCommand(args) / makeRequest(endpoint, data): entry.
runCommand(S, k) ==
  IF impl = "singleton"
  THEN ensureServerRunning([S EXCEPT !.task[k].kind = "call"], k)
  ELSE ensureServerRunningF(
         [S EXCEPT !.task[k].kind = "call", !.task[k].retries = retriesInit], k)

validateAfterCommand(S, k, op, id, name) ==
  IF Rejects(op, id, name)
  THEN LET S1 == runCommand(S, k)
       IN [S1 EXCEPT !.task[k].result = "validation_error"]
  ELSE runCommand(S, k)

facade(S, k, op, id, name) ==
  IF Rejects(op, id, name)
  THEN finish([S EXCEPT !.task[k].kind = "call"], k, "validation_error")
  ELSE runCommand(S, k)

InitFacade ==
  /\ impl \in {"singleton", "fetch"}
  /\ active = {<<"s1", 1>>, <<"s1", 2>>}
  /\ deaths = 0
  /\ budget = 1
  /\ clientOf = [s \in Sup |-> IF s = "s1" THEN "c1" ELSE "c2"]
  /\ proc = [p \in ProcId |-> NoProcRec]
  /\ \E port \in ConfiguredPorts :
       sv = [s \in Sup |->
               [InitSv EXCEPT !.constructed = (impl = "fetch"),
                              !.serverPort = IF impl = "fetch" THEN port
                                             ELSE FIXED_SERVER_PORT]]
  /\ statics = [c \in Client |-> [globalServerRunning |-> FALSE, hcFresh |-> FALSE]]
  /\ task = [k \in TaskId |-> InitTask]
  /\ pr = InitProbeRec
  /\ db = InitDb
  /\ fmt = InitFmt
  /\ panel = InitPanel

\* A caller invokes addItem, deleteItem or updateItem.
FacadeCall(k, op, id, name) ==
  /\ k \in active
  /\ task[k].pc = "idle"
  /\ impl = "singleton" => k[2] = 2 /\ sv[Owner(k)].constructed
  /\ Apply(facade(Cur, k, op, id, name))

NextFacade ==
  \/ \E k \in TaskId, op \in FacadeOps, id \in IdArgs, name \in NameArgs :
        FacadeCall(k, op, id, name)
  \/ \E p \in ProcId : ChildBoot(p)
  \/ \E p \in ProcId : ServerDies(p)
  \/ \E s \in Sup : Construct(s)
  \/ \E k \in TaskId : ProbeResult(k)
  \/ \E k \in TaskId : PortCheckResult(k)
  \/ \E p \in ProcId : StdoutData(p)
  \/ \E p \in ProcId : ExitEvent(p)
  \/ \E p \in ProcId : StartupTimeout(p)
  \/ \E p \in ProcId : VerifyTimer(p)
  \/ \E k \in TaskId, o \in {"ok", "http_error", "reset", "timeout", "refused"} : Response(k, o)
  \/ \E k \in TaskId, r \in {"direct_ok", "direct_error"} : DirectResult(k, r)
  \/ \E c \in Client : Expire(c)
  \/ \E k \in TaskId : ProbeResultF(k)
  \/ \E k \in TaskId : WaitResultF(k)
  \/ \E k \in TaskId : WaitSleepDoneF(k)
  \/ \E k \in TaskId, o \in {"ok", "http_error", "reset", "timeout", "refused"} : ResponseF(k, o)
  \/ \E k \in TaskId : RetrySleepDoneF(k)
  \/ \E s \in Sup : ExpireF(s)

SpecFacade == InitFacade /\ [][NextFacade]_vars

----------------------------------------------------------------------------
(* formatCode: a text is a sequence of characters, "\n" between lines.     *)

CodeChars == {" ", "{", "}", "a", "\n"}
Openers == {"{", "[", "("}
Closers == {"}", "]", ")"}

Texts(n) == UNION {[1..m -> CodeChars] : m \in 0..n}

\* code.split("\n")
RECURSIVE split(_)
split(t) ==
  IF \A i \in 1..Len(t) : t[i] # "\n" THEN <<t>>
  ELSE LET i == CHOOSE j \in 1..Len(t) :
                  t[j] = "\n" /\ \A h \in 1..(j - 1) : t[h] # "\n"
       IN <<SubSeq(t, 1, i - 1)>> \o split(SubSeq(t, i + 1, Len(t)))

\* formattedLines.join("\n")
RECURSIVE join(_)
join(lines) ==
  IF Len(lines) = 1 THEN lines[1]
  ELSE lines[1] \o <<"\n">> \o join(Tail(lines))

\* "  ".repeat(indentLevel)
RECURSIVE repeat(_)
repeat(level) == IF level = 0 THEN <<>> ELSE <<" ", " ">> \o repeat(level - 1)

\* The loop of formatCode over the lines left, at indentLevel `level`.
RECURSIVE indentUntrimmed(_, _)
indentUntrimmed(lines, level) ==
  IF lines = <<>> THEN <<>>
  ELSE LET line == Head(lines)
           trimmed == trim(line)
           lvl == IF trimmed # <<>> /\ Head(trimmed) \in Closers /\ level > 0
                  THEN level - 1 ELSE level
           after == IF trimmed # <<>> /\ trimmed[Len(trimmed)] \in Openers
                    THEN lvl + 1 ELSE lvl
       IN IF trimmed = <<>>
          THEN <<line>> \o indentUntrimmed(Tail(lines), level)
          ELSE <<repeat(lvl) \o line>> \o indentUntrimmed(Tail(lines), after)

RECURSIVE formatLines(_, _)
formatLines(lines, level) ==
  IF lines = <<>> THEN <<>>
  ELSE LET trimmed == trim(Head(lines))
           lvl == IF trimmed # <<>> /\ Head(trimmed) \in Closers /\ level > 0
                  THEN level - 1 ELSE level
           after == IF trimmed # <<>> /\ trimmed[Len(trimmed)] \in Openers
                    THEN lvl + 1 ELSE lvl
       IN IF trimmed = <<>>
          THEN <<<<>>>> \o formatLines(Tail(lines), level)
          ELSE <<repeat(lvl) \o trimmed>> \o formatLines(Tail(lines), after)

formatNoTrim(code) == join(indentUntrimmed(split(code), 0))

formatCode(code) == join(formatLines(split(code), 0))

InitFormat ==
  /\ impl = "singleton"
  /\ active = {}
  /\ deaths = 0
  /\ budget = 0
  /\ clientOf = [s \in Sup |-> "c1"]
  /\ proc = [p \in ProcId |-> NoProcRec]
  /\ sv = [s \in Sup |-> InitSv]
  /\ statics = [c \in Client |-> [globalServerRunning |-> FALSE, hcFresh |-> FALSE]]
  /\ task = [k \in TaskId |-> InitTask]
  /\ pr = InitProbeRec
  /\ db = InitDb
  /\ fmt \in {[InitFmt EXCEPT !.code = c] : c \in Texts(MaxCodeLen)}
  /\ panel = InitPanel

\* POST /format {code}: the first request formats the text, the second
\* formats what the first returned.
FormatOnce ==
  /\ fmt.passes = 0
  /\ fmt' = [fmt EXCEPT !.once = formatCode(fmt.code), !.passes = 1]
  /\ UNCHANGED <<supervision, pr, db, panel>>

FormatAgain ==
  /\ fmt.passes = 1
  /\ fmt' = [fmt EXCEPT !.twice = formatCode(fmt.once), !.passes = 2]
  /\ UNCHANGED <<supervision, pr, db, panel>>

NextFormat ==
  \/ FormatOnce
  \/ FormatAgain

SpecFormat == InitFormat /\ [][NextFormat]_vars

----------------------------------------------------------------------------
(* One addItem(name) call, the server that stores the item and the store:  *)
(* the supervision of the service together with the collection.            *)

AddCaller == <<"s1", 2>>
AddNames == {<<" ">>, <<"N">>}
AddName == <<"N">>

\* The collection when the call starts: the server has run initDatabase.
AddStart == handleDatabaseInit(InitDb)

\* The next state of the service is T and the next state of the store is D.
ApplyBoth(T, D) ==
  /\ ~T.overflow
  /\ proc' = [p \in ProcId |->
               IF Final(Cur, p) /\ T.proc[p] = proc[p] THEN GoneProcRec
               ELSE T.proc[p]]
  /\ sv' = T.sv
  /\ statics' = T.statics
  /\ task' = T.task
  /\ deaths' = T.deaths
  /\ db' = D
  /\ UNCHANGED <<impl, clientOf, active, budget, pr, fmt, panel>>

\* Whether the server ran handleAddItem before the POST ended with outcome
\* o: a 2xx answer is written after the insert; a connection that breaks or
\* an answer that is late may come before or after the insert; a non-2xx
\* answer and a refused connection store nothing.
Served(o) ==
  CASE o = "ok" -> {TRUE}
    [] o \in {"reset", "timeout"} -> BOOLEAN
    [] OTHER -> {FALSE}

InitAdd ==
  /\ impl \in {"singleton", "fetch"}
  /\ active = {<<"s1", 1>>, AddCaller}
  /\ deaths = 0
  /\ budget = 1
  /\ clientOf = [s \in Sup |-> IF s = "s1" THEN "c1" ELSE "c2"]
  /\ proc = [p \in ProcId |-> NoProcRec]
  /\ sv = [s \in Sup |->
             [InitSv EXCEPT !.constructed = (impl = "fetch"),
                            !.serverPort = IF impl = "fetch" THEN DefaultPort
                                           ELSE FIXED_SERVER_PORT]]
  /\ statics = [c \in Client |-> [globalServerRunning |-> FALSE, hcFresh |-> FALSE]]
  /\ task = [k \in TaskId |-> InitTask]
  /\ pr = InitProbeRec
  /\ db = AddStart
  /\ fmt = InitFmt
  /\ panel = InitPanel

\* The caller invokes addItem(name).
AddCall(name) ==
  /\ task[AddCaller].pc = "idle"
  /\ impl = "singleton" => sv[Owner(AddCaller)].constructed
  /\ Apply(facade(Cur, AddCaller, "add", <<>>, name))

\* The POST of executeViaServer ends with outcome o.
AddResponse(o, served) ==
  /\ impl = "singleton"
  /\ task[AddCaller].pc = "sent"
  /\ o \in Outcomes(Cur, task[AddCaller].probePort)
  /\ served \in Served(o)
  /\ ApplyBoth(afterResponse(Cur, AddCaller, o),
               IF served THEN handleAddItem(db, AddName) ELSE db)

\* The fetch of makeRequest ends with outcome o.
AddResponseF(o, served) ==
  /\ impl = "fetch"
  /\ task[AddCaller].pc = "sent"
  /\ o \in Outcomes(Cur, task[AddCaller].probePort)
  /\ served \in Served(o)
  /\ ApplyBoth(afterResponseF(Cur, AddCaller, o),
               IF served THEN handleAddItem(db, AddName) ELSE db)

\* The `home --add name` child of executeDirectly closes with code 0 (the
\* item is stored) or with another code (nothing is stored).
AddDirectResult(r) ==
  /\ task[AddCaller].pc = "direct"
  /\ ApplyBoth(finish(Cur, AddCaller, r),
               IF r = "direct_ok" THEN addItem(db, AddName) ELSE db)

NextAdd ==
  \/ \E name \in AddNames : AddCall(name)
  \/ \E o \in {"ok", "http_error", "reset", "timeout", "refused"}, served \in BOOLEAN :
        AddResponse(o, served)
  \/ \E o \in {"ok", "http_error", "reset", "timeout", "refused"}, served \in BOOLEAN :
        AddResponseF(o, served)
  \/ \E r \in {"direct_ok", "direct_error"} : AddDirectResult(r)
  \/ \E p \in ProcId : ChildBoot(p)
  \/ \E p \in ProcId : ServerDies(p)
  \/ \E s \in Sup : Construct(s)
  \/ \E k \in TaskId : ProbeResult(k)
  \/ \E k \in TaskId : PortCheckResult(k)
  \/ \E p \in ProcId : StdoutData(p)
  \/ \E p \in ProcId : ExitEvent(p)
  \/ \E p \in ProcId : StartupTimeout(p)
  \/ \E p \in ProcId : VerifyTimer(p)
  \/ \E c \in Client : Expire(c)
  \/ \E k \in TaskId : ProbeResultF(k)
  \/ \E k \in TaskId : WaitResultF(k)
  \/ \E k \in TaskId : WaitSleepDoneF(k)
  \/ \E k \in TaskId : RetrySleepDoneF(k)
  \/ \E s \in Sup : ExpireF(s)

SpecAdd == InitAdd /\ [][NextAdd]_vars

----------------------------------------------------------------------------
(* The database panel: refreshData() of DatabasePanelManager.  Calls come  *)
(* from the message handlers, from getInstance and from the retry timer;   *)
(* a call runs until its next await, its continuations run when listItems, *)
(* initializeDatabase and the 1 s delay settle.  this.panel is set by the  *)
(* constructor and never unset, so the "No panel to refresh" return is not *)
(* taken.                                                                  *)

BinaryStates == {"ok", "missing", "noexec"}
ListOutcomes == {"items", "uninit", "other"}

\* sendResponseToWebview(): this.panel.webview.postMessage(response).  On a
\* panel that is open it returns; on a panel that has been disposed the
\* webview may refuse the access with an exception.
Throws(P) == IF P.disposed THEN BOOLEAN ELSE {FALSE}

\* The run r ends with outcome e.
ends(P, r, e) == [P EXCEPT !.run[r] = [pc |-> "idle", end |-> e]]

\* finally { this.isInitializing = false }
finally(P) == [P EXCEPT !.isInitializing = FALSE]

\* catch (initError): count the failure, then schedule a retry or give up.
initFailed(P, r) ==
  LET P1 == [P EXCEPT !.initRetries = @ + 1] IN
  IF P1.initRetries < MAX_RETRIES
  THEN finally(ends([P1 EXCEPT !.isInitializing = FALSE,
                               !.timers = @ + 1], r, "retry"))
  ELSE finally(ends(P1, r, "error"))

\* refreshData(): from the call to the first await.
refreshData(P, r, bin, throws) ==
  IF P.isInitializing THEN ends(P, r, "skipped")
  ELSE LET P1 == [P EXCEPT !.isInitializing = TRUE] IN
       IF throws THEN ends(P1, r, "threw")
       ELSE IF bin # "ok"
            THEN finally(ends([P1 EXCEPT !.isInitializing = FALSE], r, "error"))
            ELSE [P1 EXCEPT !.run[r].pc = "list", !.run[r].end = "none"]

\* The first listItems settles.
afterList(P, r, o, throws) ==
  CASE o = "items" ->
         IF throws THEN finally(ends(P, r, "error"))
         ELSE finally(ends([P EXCEPT !.initRetries = 0,
                                     !.isInitializing = FALSE], r, "ok"))
    [] o = "uninit" ->
         IF throws THEN initFailed(P, r)
         ELSE [P EXCEPT !.run[r].pc = "init"]
    [] OTHER -> finally(ends(P, r, "error"))

\* initializeDatabase settles.
afterInit(P, r, ok) ==
  IF ok THEN [P EXCEPT !.run[r].pc = "sleep"] ELSE initFailed(P, r)

\* The listItems after the initialisation settles; on success the panel
\* also shows "Database initialized successfully".
afterRelist(P, r, ok, throws) ==
  IF ok /\ ~throws
  THEN finally(ends([P EXCEPT !.initRetries = 0,
                              !.isInitializing = FALSE], r, "initialised"))
  ELSE initFailed(P, r)

InitPanelSpec ==
  /\ impl = "singleton"
  /\ active = {}
  /\ deaths = 0
  /\ budget = 0
  /\ clientOf = [s \in Sup |-> "c1"]
  /\ proc = [p \in ProcId |-> NoProcRec]
  /\ sv = [s \in Sup |-> InitSv]
  /\ statics = [c \in Client |-> [globalServerRunning |-> FALSE, hcFresh |-> FALSE]]
  /\ task = [k \in TaskId |-> InitTask]
  /\ pr = InitProbeRec
  /\ db = InitDb
  /\ fmt = InitFmt
  /\ panel = InitPanel

\* A message handler, the progress callback or getInstance calls
\* refreshData(); the handlers are disposed together with the panel.
RefreshCall(r, bin) ==
  /\ ~panel.disposed
  /\ panel.run[r].pc = "idle"
  /\ panel' = refreshData(panel, r, bin, FALSE)
  /\ UNCHANGED <<supervision, pr, db, fmt>>

\* The 2 s retry timer fires and calls refreshData().
RetryTimer(r, bin, throws) ==
  /\ panel.timers > 0
  /\ panel.run[r].pc = "idle"
  /\ throws \in Throws(panel)
  /\ panel' = refreshData([panel EXCEPT !.timers = @ - 1], r, bin, throws)
  /\ UNCHANGED <<supervision, pr, db, fmt>>

ListSettles(r, o, throws) ==
  /\ panel.run[r].pc = "list"
  /\ throws \in Throws(panel)
  /\ o = "uninit" => panel.initRetries < MaxInitFailures
  /\ o = "uninit" /\ throws => panel.timers < MaxTimers
  /\ panel' = afterList(panel, r, o, throws)
  /\ UNCHANGED <<supervision, pr, db, fmt>>

InitSettles(r, ok) ==
  /\ panel.run[r].pc = "init"
  /\ ~ok => panel.timers < MaxTimers
  /\ panel' = afterInit(panel, r, ok)
  /\ UNCHANGED <<supervision, pr, db, fmt>>

SleepDone(r) ==
  /\ panel.run[r].pc = "sleep"
  /\ panel' = [panel EXCEPT !.run[r].pc = "relist"]
  /\ UNCHANGED <<supervision, pr, db, fmt>>

RelistSettles(r, ok, throws) ==
  /\ panel.run[r].pc = "relist"
  /\ throws \in Throws(panel)
  /\ ~(ok /\ ~throws) => panel.timers < MaxTimers
  /\ panel' = afterRelist(panel, r, ok, throws)
  /\ UNCHANGED <<supervision, pr, db, fmt>>

\* The user closes the panel: onDidDispose -> dispose().
PanelDispose ==
  /\ ~panel.disposed
  /\ panel' = [panel EXCEPT !.disposed = TRUE]
  /\ UNCHANGED <<supervision, pr, db, fmt>>

NextPanel ==
  \/ \E r \in RunId, bin \in BinaryStates : RefreshCall(r, bin)
  \/ \E r \in RunId, bin \in BinaryStates, throws \in BOOLEAN : RetryTimer(r, bin, throws)
  \/ \E r \in RunId, o \in ListOutcomes, throws \in BOOLEAN : ListSettles(r, o, throws)
  \/ \E r \in RunId, ok \in BOOLEAN : InitSettles(r, ok)
  \/ \E r \in RunId : SleepDone(r)
  \/ \E r \in RunId, ok \in BOOLEAN, throws \in BOOLEAN : RelistSettles(r, ok, throws)
  \/ PanelDispose

SpecPanel == InitPanelSpec /\ [][NextPanel]_vars

----------------------------------------------------------------------------
(* Properties *)

\* A task is inside ensureServerRunning with a probe or a launch of its own.
InEnsure(t) ==
  t.pc \in {"probing", "portcheck", "scan", "launching", "backoff",
            "f_probe", "f_wait", "f_sleep"}

EnsuresInFlight(s) == {k \in TaskId : Owner(k) = s /\ InEnsure(task[k])}

\* C1: for one Supervisor instance at most one "ensure ready" operation
\* (health probe plus any launch) is in flight at any time; a caller that
\* arrives meanwhile awaits that attempt (pc = "join") and starts no probe or
\* launch of its own.
C1_SingleFlight == \A s \in Sup : Cardinality(EnsuresInFlight(s)) <= 1

\* Children that listen on `port`.
Bound(port) == {p \in ProcId : proc[p].st = "listening" /\ proc[p].port = port}

\* C2: at any time, system-wide, at most one healthy server process is bound
\* to the shared well-known port, however many Supervisors, in one or in
\* several client processes, are running and requesting readiness.
C2_OneServerPerPort == \A port \in Ports : Cardinality(Bound(port)) <= 1

\* Two Supervisors both launched on the same port: the child of one listens,
\* the child of the other failed to bind.
C2_Witness ==
  \E p, q \in ProcId :
    /\ proc[p].st = "listening" /\ proc[q].st = "exited" /\ proc[q].code = 1
    /\ proc[p].port = proc[q].port
    /\ proc[p].sup # proc[q].sup

\* Child q lost the race for its port against child p of another Supervisor:
\* p listens there, q reported the address in use.
LostRaceTo(q, p) ==
  /\ proc[p].st = "listening" /\ proc[p].port = proc[q].port
  /\ proc[p].sup # proc[q].sup
  /\ proc[q].sawAddr

\* C3: when two Supervisors concurrently launch on the same free port,
\* exactly one child binds it, and the other Supervisor detects that the
\* port is taken and ends up using the winner's server: once the launch
\* attempt that detected the taken port has returned, it has returned
\* success (the winner adopted as the server in use).
C3_LoserAdopts ==
  \A p, q \in ProcId :
    (LostRaceTo(q, p) /\ proc[q].promise # "pending")
      => proc[q].promise = "resolved"

\* The call of task k failed with error e on its first send and was then
\* handled as the retry rule says: the Supervisor marked as down, at most
\* one further ensure and one further send, and exactly one further ensure
\* by the time the call has returned.
RetriedOnce(k) ==
  /\ task[k].markedDown
  /\ task[k].reensures <= 1 /\ task[k].sends <= 2
  /\ (task[k].pc = "done" => task[k].reensures = 1)

\* C4: when a call fails with a connection-level error (connection refused,
\* connection reset or request timeout), the Gateway marks the Supervisor
\* Degraded, has it re-ready itself exactly once and re-sends the call
\* exactly once.
C4_ConnErrorRetriedOnce ==
  \A k \in TaskId : task[k].firstFail \in ConnLevel => RetriedOnce(k)

NetworkErrors == {"net_error", "timeout_error"}

SecondFailed(k) == task[k].lastFail \in ConnLevel

HttpFailed(k) == task[k].firstFail = "http_error" \/ task[k].lastFail = "http_error"

Launched == {p \in ProcId : proc[p].st \notin {"none", "gone"}}

NeverSettles(p) ==
  /\ proc[p].promise = "pending"
  /\ proc[p].st = "exited" /\ proc[p].exitEv = "done"
  /\ ~proc[p].outStarted /\ ~proc[p].errAddr
  /\ ~proc[p].tmo /\ ~proc[p].verify /\ ~proc[p].addr

\* C9: a launch attempt always settles: it resolves on the startup signal
\* and otherwise fails on the startup timeout, on the exit of the child
\* before the signal, or on an address-in-use error; so no attempt is left
\* pending with nothing armed that could still settle it.
C9_AttemptSettles == \A p \in ProcId : ~NeverSettles(p)

C11_BoundedLaunch ==
  \A k \in TaskId :
    /\ task[k].failed <= task[k].attempt /\ task[k].attempt <= maxRetries
    /\ task[k].delay <= 5000
    /\ (task[k].pc = "backoff"
         => /\ task[k].failed < maxRetries
            /\ task[k].delay = IF task[k].failed = 1 THEN 1000 ELSE 2000)
    /\ (task[k].failed = maxRetries
         => /\ ~InEnsure(task[k])
            /\ (~task[k].retried
                  => task[k].pc = "done" /\ task[k].result = "ensure_error")
            /\ (task[k].retried => task[k].ranDirect))

\* The third attempt failed after backoffs of 1 s and 2 s, and the
\* ensure-ready of the constructor failed.
C11_Witness ==
  \E k \in TaskId :
    /\ task[k].failed = maxRetries /\ task[k].attempt = maxRetries
    /\ task[k].delay = 2000
    /\ task[k].result = "ensure_error"

\* C12: after a connection-level failure has marked the Supervisor Degraded,
\* the next request attempt performs a health probe immediately: no delay
\* precedes it, and its ensure-ready answers from a probe (its own, or the
\* one in flight that it awaits), never from the cached health state.
C12_ProbeAfterDegraded ==
  \A k \in TaskId :
    task[k].markedDown =>
      /\ task[k].pc # "f_retry"
      /\ (task[k].retried => task[k].skip \in {"probe", "join"})

\* C13: a request skips the health probe only when the Supervisor is Ready
\* and its cached health is inside the freshness window; on the first
\* request and whenever the cache is older, it probes before it sends.
C13_SkipOnlyWhenReadyAndFresh ==
  \A k \in TaskId : task[k].skip # "notready"

C15_NoUnboundedWait == \A k \in TaskId : task[k].pc # "hung"

Initialised == db.backend = "memory" \/ db.table

\* C17: on an initialised store, an update that names an id which is not in
\* the collection leaves the collection unchanged and is reported as "no
\* item found" (zero rows changed); nothing is thrown.
C17_UpdateMissingReportsNotFound ==
  (Initialised /\ db.op = "update" /\ db.status = 200 /\ ~db.existed) =>
      db.unchanged /\ db.log = "none"

\* C18: on an initialised store, a delete that repeats the delete just answered with success (same
\* id) succeeds again, reports zero changes, and leaves the collection as
\* it was.
C18_DeleteIdempotent ==
  (Initialised /\ db.op = "delete" /\ db.askedBefore) =>
      db.status = 200 /\ db.log = "none" /\ db.unchanged

\* C19: a list that directly follows an accepted add(name) returns an item
\* whose name is the added name and whose id no other returned item has.
C19_AddThenListShowsItem ==
  (db.op = "list" /\ db.prevAdd) =>
      /\ db.status = 200
      /\ \E i \in 1..Len(db.rows) :
            /\ db.rows[i].name = db.prevName
            /\ \A j \in 1..Len(db.rows) :
                  j # i => db.rows[j].id # db.rows[i].id

\* C20: after POST /database/init, add "Task 1", list (in this order, with
\* nothing in between) the list is returned and exactly one of its items is
\* named "Task 1".
C20_ScenarioA ==
  db.scen = 3 =>
      /\ db.status = 200
      /\ Cardinality({i \in 1..Len(db.rows) : db.rows[i].name = Task1}) = 1

C20_Witness ==
  /\ db.scen = 3 /\ db.op = "list"
  /\ \E i \in 1..Len(db.rows) : db.rows[i].name = Task1

\* C21: on an initialised store, a list that directly follows a clear
\* reported as done returns the empty collection.
C21_ClearThenListEmpty ==
  (Initialised /\ db.op = "list" /\ db.prevClear) =>
      db.status = 200 /\ db.rows = <<>>

\* C22: the ids of the items grow strictly in the order the items were
\* added, the next id to assign is above every id assigned since the last
\* full reset (DROP TABLE), and no add is given an id that was assigned
\* since that reset - whether or not the item was deleted or the collection
\* cleared in between.
C22_IdsIncreaseNoReuse ==
  /\ ~db.reused
  /\ \A a \in db.assigned : a < db.nextId
  /\ \A i \in 1..Len(db.items) :
        /\ db.items[i].id \in db.assigned
        /\ \A j \in 1..Len(db.items) :
              i < j => db.items[i].id < db.items[j].id

\* An add after a clear or delete emptied the collection: the only item
\* has an id above the ones given before.
C22_Witness ==
  /\ db.op = "add" /\ db.status = 200 /\ db.log = "changed"
  /\ Len(db.items) = 1 /\ db.items[1].id > 1

Rejected(k) == task[k].result = "validation_error"

\* C23: a facade call rejected for an empty or blank name or a missing id
\* has made no health probe, no launch, no request and no direct CLI run,
\* and the step that rejects it changes nothing of the service, of the
\* child processes or of the item store.
C23_RejectedBeforeIO ==
  [][\A k \in TaskId :
       /\ Rejected(k)' =>
            /\ task'[k].pc = "done" /\ task'[k].skip = "none"
            /\ task'[k].sends = 0 /\ task'[k].ensures = 0
            /\ task'[k].attempt = 0 /\ ~task'[k].ranDirect
       /\ (Rejected(k)' /\ ~Rejected(k)) =>
            /\ sv' = sv /\ statics' = statics /\ db' = db
            /\ \A p \in ProcId : proc'[p] \in {proc[p], GoneProcRec}]_vars

C23_Witness ==
  \E k \in TaskId :
    /\ Rejected(k)
    /\ \E j \in TaskId : j # k /\ task[j].pc = "done" /\ task[j].sends > 0

\* C24: formatting what formatCode returned gives the same text again, for
\* every input - the correctly indented ones (which formatCode returns as
\* they are) included.
C24_FormatIdempotent ==
  fmt.passes = 2 => fmt.twice = fmt.once

\* A correctly indented block, and a text that the first pass had to change.
C24_Witness ==
  /\ fmt.passes = 2
  /\ fmt.code = <<"{", "\n", "}">>
  /\ fmt.once = fmt.code

C24_WitnessChanged ==
  /\ fmt.passes = 2
  /\ fmt.once # fmt.code
  /\ \E i \in 1..Len(fmt.once) : fmt.once[i] \in Openers

Supervising(s) == \E k \in active : Owner(k) = s

\* C26: every child a supervisor has launched was launched on the port the
\* supervisor probes and sends its requests to, and all supervisors on the
\* machine use the same port.
C26_OnePortForAll ==
  /\ \A p \in ProcId :
        proc[p].st \in {"booting", "listening"} =>
            proc[p].port = sv[proc[p].sup].serverPort
  /\ \A s1, s2 \in Sup :
        Supervising(s1) /\ Supervising(s2) =>
            sv[s1].serverPort = sv[s2].serverPort

\* A child's exit event is stale when the supervisor's handle no longer
\* refers to that child: the handle was dropped by a kill or overwritten by
\* the spawn of a newer child.
StaleExit(p) ==
  /\ proc[p].exitEv = "pending"
  /\ proc'[p].exitEv = "done"
  /\ sv[proc[p].sup].serverProcess # p

\* C27: the exit event of a child the supervisor has already killed or
\* replaced leaves the handle of a newer child in place and does not turn
\* off a running flag that a newer child or a reused healthy server set.
C27_StaleExitHarmless ==
  [][\A p \in ProcId :
        StaleExit(p) =>
          LET s == proc[p].sup IN
          /\ sv[s].serverProcess # NoProc => sv'[s].serverProcess # NoProc
          /\ sv[s].isServerRunning => sv'[s].isServerRunning]_vars

\* C28: one addItem(name) call adds at most one item to the collection,
\* whatever failures, retries and fallbacks happen during the call.
C28_AddsAtMostOne == Len(db.items) <= Len(AddStart.items) + 1

\* The delete or update answered last named an id that was in the collection
\* and was answered with success.
Succeeded(D, op) == D.op = op /\ D.status = 200 /\ D.existed

\* C29: on an initialised store, a delete(id) or update(id, newName) of an
\* id that is in the collection and that is answered with success removes
\* exactly that item, respectively renames exactly that item, and the list
\* that follows returns the collection so changed.
C29_ChangeVisibleInNextList ==
  [][Initialised =>
       /\ Succeeded(db', "delete") =>
            db'.items = SelectSeq(db.items, LAMBDA r : r.id # db'.argId)
       /\ Succeeded(db', "update") =>
            db'.items = [i \in 1..Len(db.items) |->
                           IF db.items[i].id = db'.argId
                           THEN [db.items[i] EXCEPT !.name = trim(db'.argName)]
                           ELSE db.items[i]]
       /\ ((Succeeded(db, "delete") \/ Succeeded(db, "update")) /\ db'.op = "list") =>
            db'.status = 200 /\ db'.rows = db.items]_vars

InProgress(P, r) == P.run[r].pc # "idle"

\* C30: at most one refreshData() run is in progress per panel; a refresh
\* requested while a run is in progress is skipped; and whenever no run is
\* in progress the isInitializing guard is false.
C30_OneRefreshGuardReleased ==
  [][/\ Cardinality({r \in RunId : InProgress(panel', r)}) <= 1
     /\ \A r \in RunId :
          (/\ ~InProgress(panel, r)
           /\ panel'.run[r] # panel.run[r]
           /\ \E r2 \in RunId \ {r} : InProgress(panel, r2))
          => panel'.run[r] = [pc |-> "idle", end |-> "skipped"]
     /\ (\A r \in RunId : ~InProgress(panel', r)) => ~panel'.isInitializing]_vars

====
